---- MODULE Spec2Model ----
(***************************************************************************)
(* WarpDrive (SlicerNetstim): the correction cycle of WarpDriveWidget and  *)
(* WarpDriveLogic (src/WarpDrive/WarpDrive.py) and the recovery snapshot   *)
(* of LeadDBSCall (src/WarpDrive/WarpDriveLib/Helpers/LeadDBSCall.py).     *)
(*                                                                         *)
(* Every handler of the widget is one action.  A handler runs to its end   *)
(* on the UI thread; the observers it triggers synchronously (the          *)
(* parameter node's ModifiedEvent, the selectors' currentNodeChanged) are  *)
(* part of the same action.  The solver runs out of process: its status    *)
(* changes are separate actions that call onStatusModifiedEvent.           *)
(* The scene holds two grid transform nodes, n1 the one the user corrects. *)
(* Lengths are in tenths of a millimetre, parameters are the strings the   *)
(* parameter node stores.                                                  *)
(*                                                                         *)
(* Spec is the correction cycle.  GridSpec adds the spacing controls that  *)
(* decide the grid of a commit.  ApprovalSpec (saveApprovedData) and       *)
(* MigrationSpec (loadSubjectTransform) start from the subject directories *)
(* Lead-DBS can have left on disk.                                         *)
(***************************************************************************)
EXTENDS Integers, Sequences, FiniteSets, TLC

\* ------------------------------------------------------------------ bounds
\* calls of onCalculateButton in one run
MaxCommits == 2
\* correspondence points in the source / target fiducial lists
MaxPoints == 3
\* scene closes in one run
MaxCloses == 1
\* largest magnitude (in tenths) the float parser knows
MaxTenths == 40
\* the content of a transform node is followed that many levels deep
MaxNesting == 5

\* ------------------------------------------------------------- python None
NULL == "None"

\* the transform nodes of the scene the two selectors can show
Nodes == {"n1", "n2"}

\* the transform node to correct: the one the user picks as input
Inputs == {"n1"}

\* ------------------------------------------------------- str() and float()
Digits == <<"0", "1", "2", "3", "4", "5", "6", "7", "8", "9">>

RECURSIVE NatStr(_)
NatStr(n) == IF n < 10 THEN Digits[n + 1] ELSE NatStr(n \div 10) \o Digits[(n % 10) + 1]

\* str(x) of a float x given in tenths: 20 is "2.0", 1 is "0.1", -5 is "-0.5"
FloatStr(t) ==
  LET a == IF t < 0 THEN 0 - t ELSE t
  IN (IF t < 0 THEN "-" ELSE "") \o NatStr(a \div 10) \o "." \o NatStr(a % 10)

\* float(s), in tenths
Float(s) == CHOOSE t \in (0 - MaxTenths)..MaxTenths : FloatStr(t) = s

\* ",".join(list)
RECURSIVE Join(_)
Join(list) ==
  IF list = <<>> THEN ""
  ELSE IF Len(list) = 1 THEN list[1]
  ELSE list[1] \o "," \o Join(Tail(list))

\* --------------------------------------------------------------- geometry
\* GridNodeHelper.getGridDefinition(node): size, origin and spacing of the
\* grid transform the node holds
getGridDefinition(node) ==
  IF node = "n1"
  THEN [size |-> <<4, 5, 6>>, origin |-> <<0, 0, 0>>, spacing |-> <<10, 15, 20>>]
  ELSE [size |-> <<7, 7, 7>>, origin |-> <<-10, 0, 10>>, spacing |-> <<10, 10, 10>>]

\* int(x / y) of python for the quotient of two integers: truncation toward 0
IntDiv(x, y) ==
  LET ax == IF x < 0 THEN 0 - x ELSE x
      ay == IF y < 0 THEN 0 - y ELSE y
      q == ax \div ay
  IN IF (x < 0) = (y < 0) THEN q ELSE 0 - q

\* GridNodeHelper.emptyVolume(size, origin, spacing): the geometry of the new
\* volume node
emptyVolume(size, origin, spacing) ==
  [size |-> size, origin |-> origin, spacing |-> spacing]

\* GridNodeHelper.emptyGridTransform(size, origin, spacing, node): the content
\* written into node, a grid of zero displacements
emptyGridTransform(size, origin, spacing) ==
  [kind |-> "identity", size |-> size, origin |-> origin, spacing |-> spacing]

\* ------------------------------------------------------ correspondence data
\* the control points the tools can place: position of the source point,
\* position of the target point, selected (unselected points are the fixed
\* points), description (the radius annotation)
PointTable ==
  <<[source |-> 11, target |-> 21, selected |-> TRUE, description |-> "20"],
    [source |-> 12, target |-> 22, selected |-> FALSE, description |-> "30"],
    [source |-> 13, target |-> 23, selected |-> TRUE, description |-> "15"],
    [source |-> 14, target |-> 24, selected |-> TRUE, description |-> "10"],
    [source |-> 15, target |-> 25, selected |-> FALSE, description |-> "25"]>>

\* the points one stroke of a drawing tool places
StrokeLen == 3

\* ------------------------------------------------------------------- state
VARIABLES
  isEntered,        \* self.parent.isEntered: the module is the one shown
  parameterNode,    \* self._parameterNode: its references and parameters, or NoParameterNode
  ui,               \* the widgets: selectors, check box, spin boxes, calculate button
  updatingGUI,      \* self._updatingGUIFromParameterNode
  transformNodeID,  \* for each transform node, the transform node it observes
  scene,            \* ids of the nodes in slicer.mrmlScene
  sourceFiducial,   \* control point positions of the source fiducial node
  targetFiducial,   \* control points of the target fiducial node
  gridTransform,    \* the content of each transform node
  commits,          \* one record per call of onCalculateButton
  launched,         \* what the handler that just ran gave the solver (NoLaunch
                    \* when it was not onCalculateButton)
  warpdrive,        \* <subjectPath>/warpdrive on disk: what the last save wrote
  savedCount,       \* calls of saveCurrentScene so far
  argv,             \* subject path given on the command line ("" when none)
  closes,           \* scene closes so far
  raised,           \* exception the last handler ended with ("" when it returned)
  subject,          \* the subject directory on disk: its subdirectories and files
  cwd,              \* os.getcwd()
  calls,            \* what the last handler of LeadDBSCall called, in order
  imageNode         \* the transform node the image node observes

vars == <<isEntered, parameterNode, ui, updatingGUI, transformNodeID, scene,
          sourceFiducial, targetFiducial, gridTransform, commits,
          launched, warpdrive, savedCount, argv, closes, raised,
          subject, cwd, calls, imageNode>>


\* ---------------------------------------------------------- parameter node
\* self._parameterNode = None
NoParameterNode == [None |-> TRUE]

\* the node logic.getParameterNode() creates: no reference, no parameter
NewParameterNode ==
  [InputNode |-> NULL, SourceFiducial |-> NULL, TargetFiducial |-> NULL,
   OutputGridTransform |-> NULL, Spacing |-> "", Stiffness |-> "",
   Running |-> "", Update |-> "", subjectPath |-> "", MNIPath |-> ""]

setDefaultParameters(pn) ==
  [pn EXCEPT !.Spacing = IF @ = "" THEN "2.0" ELSE @,
             !.Stiffness = IF @ = "" THEN "0.1" ELSE @,
             !.Running = IF @ = "" THEN "false" ELSE @]

\* ------------------------------------------------------------------ widget
\* The handlers below are functions of a record w:
\*   pn        self._parameterNode
\*   ui        the widgets
\*   tid       the transform node each node observes
\*   scene     the nodes of the scene
\*   updating  self._updatingGUIFromParameterNode
\*   observed  updateGUIFromParameterNode observes pn's ModifiedEvent
\*   exc       the exception raised so far ("" when none)
RECURSIVE updateGUIFromParameterNode(_)

\* vtkObject::Modified on the parameter node: its observers run
Modified(w) == IF w.observed THEN updateGUIFromParameterNode(w) ELSE w

\* vtkMRMLScriptedModuleNode::SetParameter: ModifiedEvent only on a change
SetParameter(w, name, value) ==
  IF w.pn[name] = value THEN w ELSE Modified([w EXCEPT !.pn[name] = value])

updateParameterNodeFromGUI(w) ==
  IF w.pn = NoParameterNode \/ w.updating THEN w
  ELSE
    LET pn1 == [w.pn EXCEPT
                  !.InputNode = w.ui.inputSelector,
                  !.SourceFiducial = w.ui.sourceFiducialsComboBox,
                  !.TargetFiducial = w.ui.targetFiducialsComboBox,
                  !.OutputGridTransform = w.ui.outputSelector,
                  !.Stiffness = FloatStr(w.ui.stiffnessSpinBox),
                  \* lines 327-332: str(spacing[0])
                  !.Spacing =
                     IF w.ui.spacingSameAsInputCheckBox
                     THEN FloatStr(getGridDefinition(w.ui.inputSelector).spacing[1])
                     ELSE FloatStr(w.ui.spacingSpinBox)]
    IN \* StartModify .. EndModify: one ModifiedEvent, when something changed
       IF pn1 = w.pn THEN w ELSE Modified([w EXCEPT !.pn = pn1])

onOutputNodeChanged(w) ==
  LET w1 == IF w.ui.outputSelector = w.ui.inputSelector
            THEN [w EXCEPT !.ui.outputSelector = NULL]
            ELSE w
  IN IF w1.ui.inputSelector # NULL
     THEN [w1 EXCEPT !.tid[w1.ui.inputSelector] = w1.ui.outputSelector]
     ELSE w1

\* qMRMLNodeComboBox.setCurrentNode on the three selectors that are connected
\* to updateParameterNodeFromGUI only
setCurrentNodes(w) ==
  LET w1 == [w EXCEPT !.ui.inputSelector = w.pn.InputNode,
                      !.ui.sourceFiducialsComboBox = w.pn.SourceFiducial,
                      !.ui.targetFiducialsComboBox = w.pn.TargetFiducial]
  IN IF w1.ui = w.ui THEN w ELSE updateParameterNodeFromGUI(w1)

\* outputSelector.setCurrentNode: currentNodeChanged runs both of its slots
setCurrentOutput(w) ==
  IF w.ui.outputSelector = w.pn.OutputGridTransform THEN w
  ELSE updateParameterNodeFromGUI(
         onOutputNodeChanged([w EXCEPT !.ui.outputSelector = w.pn.OutputGridTransform]))

\* QAbstractButton.animateClick: nothing on a disabled button, else the click
\* is delivered by a timer
animateClick(w) ==
  IF w.ui.calculateEnabled THEN [w EXCEPT !.ui.clickPending = TRUE] ELSE w

\* lines 273-276: the selectors show the parameter node's references
updateSelectors(w) == setCurrentOutput(setCurrentNodes(w))

\* lines 277-291: spin boxes, and the controls that need an input and an output
updateControls(w) ==
  LET both == w.pn.InputNode # NULL /\ w.pn.OutputGridTransform # NULL
  IN [w EXCEPT !.ui.spacingSpinBox = Float(w.pn.Spacing),
               !.ui.stiffnessSpinBox = Float(w.pn.Stiffness),
               !.ui.outputSelectorEnabled = (w.pn.InputNode # NULL),
               !.ui.toolsEnabled = both,
               !.ui.calculateEnabled = both,
               !.ui.clickPending = @ /\ both]

\* the automatic commit without the test of Running
autoUpdateWhileRunning(w) ==
  IF w.pn.Update = "true" /\ w.ui.autoUpdateCheckBox THEN animateClick(w) ELSE w

\* lines 294-296: the automatic commit
autoUpdate(w) ==
  IF /\ w.pn.Update = "true"
     /\ w.pn.Running = "false"
     /\ w.ui.autoUpdateCheckBox
  THEN animateClick(w)
  ELSE w

\* line 301
endUpdate(w) == [w EXCEPT !.updating = FALSE]

updateGUIFromParameterNode(w) ==
  IF w.pn = NoParameterNode \/ w.updating THEN w
  ELSE endUpdate(
         SetParameter(
           autoUpdate(updateControls(updateSelectors([w EXCEPT !.updating = TRUE]))),
           "Update", "false"))

\* setParameterNode(inputParameterNode), called with a node
setParameterNode(w, node) ==
  updateGUIFromParameterNode(
    [w EXCEPT !.pn = setDefaultParameters(node), !.observed = TRUE])

\* LeadDBSCall.updateParameterNodeFromArgs(parameterNode) with sys.argv giving
\* subject path `path` ("" when the module was not started by Lead-DBS)
updateParameterNodeFromArgs(w, path) ==
  IF w.pn.MNIPath # "" \/ path = "" THEN w
  ELSE SetParameter(SetParameter(w, "subjectPath", path), "MNIPath", "/mni")

\* no transform and no volume
NoPreview ==
  [sourceLandmarks |-> <<>>, targetLandmarks |-> <<>>, basis |-> "", inverse |-> FALSE]

NoVolume == [size |-> <<>>, origin |-> <<>>, spacing |-> <<>>]

\* the record of a commit that created no command line module node
NoCLI ==
  [status |-> "None", referenceVolume |-> NULL, fixedFiducials |-> NULL,
   movingFiducials |-> NULL, outputDisplacementField |-> NULL,
   RBFRadius |-> "", stiffness |-> 0]

\* the locals of onCalculateButton before its first statement
NoLocals ==
  [auxVolumeNode |-> NULL, auxGeometry |-> NoVolume, inputNode |-> NULL,
   outputNode |-> NULL, RBFRadius |-> "", stiffness |-> 0,
   visualizationNodes |-> {}, preview |-> NoPreview, cliNode |-> NoCLI,
   detachedFrom |-> NULL]

\* the handler that just ran was not onCalculateButton
NoLaunch == [cliNode |-> NoCLI, preview |-> NoPreview, auxGeometry |-> NoVolume]

\* the record of the current state, and the state a record stands for
World ==
  [pn |-> parameterNode, ui |-> ui, tid |-> transformNodeID, scene |-> scene,
   updating |-> updatingGUI, observed |-> isEntered /\ parameterNode # NoParameterNode,
   source |-> sourceFiducial, target |-> targetFiducial,
   grids |-> gridTransform, commits |-> commits,
   disk |-> warpdrive, saved |-> savedCount,
   exc |-> "", locals |-> NoLocals]

\* what the observer's lambda captured is read for the last time when the
\* solver failed or was cancelled, when the handler applied the warp itself,
\* and when the completed command line module node has left the scene: from
\* then on the record keeps the status and the names of the nodes
Forget(w) ==
  [w EXCEPT
     !.commits = [k \in 1..Len(w.commits) |->
                    LET c == w.commits[k] IN
                    IF c.status \in {"Scheduled", "Running"} THEN c
                    ELSE IF c.status = "Completed" /\ c.timer
                    THEN [c EXCEPT !.inputNode = NULL, !.detachedFrom = NULL]
                    ELSE [c EXCEPT !.outputNode = NULL, !.inputNode = NULL,
                                   !.detachedFrom = NULL]]]

\* the next state is the one the record a handler returned stands for
Becomes(w0) ==
  LET w == Forget(w0) IN
  /\ parameterNode' = w.pn
  /\ ui' = w.ui
  /\ transformNodeID' = w.tid
  /\ scene' = w.scene
  /\ updatingGUI' = w.updating
  /\ sourceFiducial' = w.source
  /\ targetFiducial' = w.target
  /\ gridTransform' = w.grids
  /\ commits' = w.commits
  /\ launched' = IF w.locals.auxVolumeNode = NULL THEN NoLaunch
                 ELSE [cliNode |-> w.locals.cliNode, preview |-> w.locals.preview,
                       auxGeometry |-> w.locals.auxGeometry]
  /\ warpdrive' = w.disk
  /\ savedCount' = w.saved
  /\ raised' = w.exc
  /\ UNCHANGED <<subject, cwd, calls, imageNode>>

\* a python statement that raises ends the handler: the rest is skipped
Raise(w, exception) == [w EXCEPT !.exc = exception]


\* ------------------------------------------------------------------- logic
\* [x] * 3
Times3(x) == <<x, x, x>>

\* indices i >= from of the control points of `target` that are selected
RECURSIVE SelectedFrom(_, _)
SelectedFrom(target, from) ==
  IF from > Len(target) THEN <<>>
  ELSE (IF target[from].selected THEN <<from>> ELSE <<>>) \o SelectedFrom(target, from + 1)

\* the radius string without the test of line 370: one entry for every
\* control point
RBFRadiusOfAllPoints(target) ==
  Join([j \in 1..Len(target) |-> target[j].description])

\* what the solver gets for a point list given by node id: slicer.cli.run
\* writes the selected control points of the node on the command line, in
\* index order (vtkMRMLMarkupsNode::WriteCLI)
WriteCLI(points) == SelectSeq(points, LAMBDA p : p.selected)

\* the loop over the target node's control points and the join
RBFRadiusOf(target) ==
  LET idx == SelectedFrom(target, 1)
  IN Join([j \in 1..Len(idx) |-> target[idx[j]].description])

\* previewWarp without the test of line 512: every control point a landmark
previewWarpOfAllPoints(w, k) ==
  [w EXCEPT
     !.locals.preview =
        [sourceLandmarks |-> w.source,
         targetLandmarks |-> [j \in 1..Len(w.target) |-> w.target[j].position],
         basis |-> "R", inverse |-> TRUE],
     !.scene = @ \cup {"vis" \o ToString(k), "glyph" \o ToString(k)},
     !.locals.visualizationNodes = {"vis" \o ToString(k), "glyph" \o ToString(k)}]

\* WarpDriveLogic.previewWarp(sourceNode, targetNode) in commit k: the glyph
\* point node and the transform node are added to the scene
previewWarp(w, k) ==
  LET idx == SelectedFrom(w.target, 1)
      transformNode == "vis" \o ToString(k)
      sourceDisplayFiducial == "glyph" \o ToString(k)
  IN [w EXCEPT
        !.locals.preview =
           [sourceLandmarks |-> [j \in 1..Len(idx) |-> w.source[idx[j]]],
            targetLandmarks |-> [j \in 1..Len(idx) |-> w.target[idx[j]].position],
            basis |-> "R", inverse |-> TRUE],
        !.scene = @ \cup {transformNode, sourceDisplayFiducial},
        !.locals.visualizationNodes = {transformNode, sourceDisplayFiducial}]

\* computeWarp with the two point lists exchanged
computeWarpSwapped(referenceVolume, outputNode, sourceID, targetID, RBFRadius, stiffness) ==
  [status |-> "Scheduled",
   referenceVolume |-> referenceVolume,
   fixedFiducials |-> sourceID,
   movingFiducials |-> targetID,
   outputDisplacementField |-> outputNode,
   RBFRadius |-> RBFRadius,
   stiffness |-> stiffness]

\* WarpDriveLogic.computeWarp: slicer.cli.run(..., wait_for_completion=False)
\* returns the new command line module node, scheduled
computeWarp(referenceVolume, outputNode, sourceID, targetID, RBFRadius, stiffness) ==
  [status |-> "Scheduled",
   referenceVolume |-> referenceVolume,
   fixedFiducials |-> targetID,
   movingFiducials |-> sourceID,
   outputDisplacementField |-> outputNode,
   RBFRadius |-> RBFRadius,
   stiffness |-> stiffness]

\* run without the test for an empty source node: the solver in every commit
runAlways(w, k) ==
  [w EXCEPT
     !.locals.cliNode =
        computeWarp(w.locals.auxVolumeNode, w.locals.outputNode,
                    w.pn.SourceFiducial, w.pn.TargetFiducial,
                    w.locals.RBFRadius, w.locals.stiffness),
     !.scene = @ \cup {"cli" \o ToString(k)}]

\* WarpDriveLogic.run in commit k: the solver when the source node has control
\* points, else an identity grid written into the output node
run(w, k) ==
  LET l == w.locals IN
  IF Len(w.source) # 0
  THEN [w EXCEPT
          !.locals.cliNode =
             computeWarp(l.auxVolumeNode, l.outputNode, w.pn.SourceFiducial,
                         w.pn.TargetFiducial, l.RBFRadius, l.stiffness),
          !.scene = @ \cup {"cli" \o ToString(k)}]
  ELSE [w EXCEPT
          !.locals.cliNode = NoCLI,
          !.grids[l.outputNode] =
             emptyGridTransform(l.auxGeometry.size, l.auxGeometry.origin,
                                l.auxGeometry.spacing)]

\* ------------------------------------------------------- recovery snapshot
\* the nodes the subject hierarchy tags 'correction': the two point lists and
\* the label map of the strokes
CorrectionTagged(sc) == sc \cap {"src", "tgt", "mask"}

\* lines 275 and 281: '.fcsv' for a fiducial node, '.nrrd' for a label map
NodeExt(node) == IF node = "mask" THEN ".nrrd" ELSE ".fcsv"

\* uuid.uuid4().hex: a name no other call and no other node gets
uuid4(call, node) == "uuid-" \o ToString(call) \o "-" \o node

\* os.mkdir without the rmtree before it: what the directory held stays
RecreatedOver(disk) ==
  [isdir |-> TRUE, Data |-> IF disk.isdir THEN disk.Data ELSE {}]

\* lines 266-271: the directory is removed with what it holds and made again
\* with an empty Data
Recreated(disk) == [isdir |-> TRUE, Data |-> {}]

\* LeadDBSCall.saveCurrentScene(subjectPath): the warpdrive directory is
\* removed and made again, one file per tagged node, then the scene is written
saveCurrentScene(w) ==
  [w EXCEPT
     !.saved = @ + 1,
     !.disk = [isdir |-> TRUE,
               Data |-> Recreated(w.disk).Data \cup
                          {[file |-> uuid4(w.saved + 1, n) \o NodeExt(n), node |-> n] :
                             n \in CorrectionTagged(w.scene)},
               URL |-> "warpdrive/WarpDriveScene.mrml",
               manifest |-> [InputNode |-> w.pn.InputNode,
                             transformNodeID |-> w.tid[w.pn.InputNode],
                             Running |-> w.pn.Running]]]


\* onStatusModifiedEvent without the return of line 410: the warp is applied
\* at every notification
onStatusModifiedEventAtEveryStatus(w, callerStatus, outputNode, visualizationNodes, auxVolumeNode) ==
  IF w.pn = NoParameterNode THEN Raise(w, "AttributeError")
  ELSE IF w.pn.InputNode = NULL \/ outputNode = NULL THEN Raise(w, "AttributeError")
  ELSE SetParameter(
         [w EXCEPT !.tid[w.pn.InputNode] = outputNode,
                   !.scene = (@ \ visualizationNodes) \ {auxVolumeNode}],
         "Running", "false")

\* ------------------------------------------------------- the commit handler
\* WarpDriveWidget.onStatusModifiedEvent(caller, outputNode, visualizationNodes,
\* auxVolumeNode); callerStatus is caller.GetStatusString(), or NULL when the
\* caller is None
onStatusModifiedEvent(w, callerStatus, outputNode, visualizationNodes, auxVolumeNode) ==
  IF callerStatus # NULL /\ callerStatus # "Completed" THEN w
  ELSE IF w.pn = NoParameterNode THEN Raise(w, "AttributeError")
  ELSE IF w.pn.InputNode = NULL \/ outputNode = NULL THEN Raise(w, "AttributeError")
  ELSE
    LET w1 == [w EXCEPT !.tid[w.pn.InputNode] = outputNode]
        w2 == [w1 EXCEPT !.scene = (@ \ visualizationNodes) \ {auxVolumeNode}]
    IN SetParameter(w2, "Running", "false")

\* lines 357-373: the locals of the handler and the auxiliary volume
CreateNodes(w, k) ==
  LET grid == getGridDefinition(w.pn.InputNode)
      userSpacing == Times3(Float(w.pn.Spacing))
      size == [a \in 1..3 |-> IntDiv(grid.size[a] * grid.spacing[a], userSpacing[a])]
      auxVolumeNode == "aux" \o ToString(k)
      w1 == [w EXCEPT
               !.scene = @ \cup {auxVolumeNode},
               !.locals = [NoLocals EXCEPT
                             !.auxVolumeNode = auxVolumeNode,
                             !.auxGeometry = emptyVolume(size, grid.origin, userSpacing),
                             !.inputNode = w.pn.InputNode,
                             !.outputNode = w.pn.OutputGridTransform,
                             !.stiffness = Float(w.pn.Stiffness)]]
  IN IF w.pn = NoParameterNode THEN Raise(w, "AttributeError")
     \* int() of an infinite quotient
     ELSE IF Float(w.pn.Spacing) = 0 THEN Raise(w, "OverflowError")
     ELSE IF w.pn.TargetFiducial = NULL THEN Raise(w1, "AttributeError")
     ELSE [w1 EXCEPT !.locals.RBFRadius = RBFRadiusOf(w.target)]

\* lines 375-377
SaveState(w) ==
  IF w.exc # "" THEN w
  ELSE IF w.pn.subjectPath # "" THEN saveCurrentScene(w) ELSE w

\* lines 379-380
UnsetCurrentWarp(w) ==
  IF w.exc # "" THEN w
  ELSE [w EXCEPT !.tid[w.pn.InputNode] = NULL,
                 !.locals.detachedFrom = w.tid[w.pn.InputNode]]

\* lines 382-384
Preview(w, k) == IF w.exc # "" THEN w ELSE previewWarp(w, k)

\* lines 386-388
Run(w, k) ==
  IF w.exc # "" THEN w ELSE run(SetParameter(w, "Running", "true"), k)

\* lines 390-397: observe the solver, or apply at once
Observe(w) ==
  IF w.exc # "" THEN w
  ELSE IF w.locals.cliNode # NoCLI THEN w
  ELSE onStatusModifiedEvent(w, NULL, w.locals.outputNode,
                             w.locals.visualizationNodes, w.locals.auxVolumeNode)

\* commit k as the later handlers see it: the status of its command line
\* module node ("None" when there is none, "Raised" when the handler ended in
\* an exception), what the observer's lambda captured, the input node and the
\* transform line 380 detached it from, the timer of line 408
CommitRecord(w) ==
  [status |-> IF w.exc # "" THEN "Raised" ELSE w.locals.cliNode.status,
   inputNode |-> w.locals.inputNode,
   detachedFrom |-> w.locals.detachedFrom,
   outputNode |-> w.locals.outputNode,
   visualizationNodes |-> w.locals.visualizationNodes,
   auxVolumeNode |-> w.locals.auxVolumeNode,
   timer |-> FALSE]

\* the handler's call is recorded once its first statement has run
Recorded(w) ==
  IF w.locals.auxVolumeNode = NULL THEN w
  ELSE [w EXCEPT !.commits = Append(@, CommitRecord(w))]

\* onCalculateButton with the snapshot taken after the input node is detached
onCalculateButtonSavesLate(w, k) ==
  Recorded(Observe(Run(Preview(SaveState(UnsetCurrentWarp(CreateNodes(w, k))), k), k)))

\* WarpDriveWidget.onCalculateButton, the k-th call
onCalculateButtonBody(w, k) ==
  Recorded(Observe(Run(Preview(UnsetCurrentWarp(SaveState(CreateNodes(w, k))), k), k)))


\* ------------------------------------------------------- the subject on disk
\* A path is the sequence of its directories, the base name of the file and
\* its extension.  A directory on disk is the set of the subdirectories of
\* the subject root, the files (a function from paths to contents) and what
\* the glob patterns of the two kinds of images match.
SubjectPath == <<"data", "sub01">>

\* the working directory Slicer was started in
Home == <<"home">>

NoFiles == [x \in {} |-> NULL]

NoImages == [normalized |-> <<>>, coreg |-> <<>>]

\* the value that marks the normalization approved
ApprovedSentinel == 2

\* dict[key] = value
SetItem(dict, key, value) ==
  [k \in DOMAIN dict \cup {key} |-> IF k = key THEN value ELSE dict[k]]

\* the loops of lines 126-129 and 135-138: every key but `key`
CopyExcept(dict, key) == [k \in DOMAIN dict \ {key} |-> dict[k]]

\* class LeadFileManager on the disk d
LeadFileManager(d, subjectPath) ==
  [subjectPath |-> subjectPath,
   subjectID |-> subjectPath[Len(subjectPath)],
   useBIDS |-> "preprocessing" \in d.dirs,
   images |-> d.images]

getNormalizationPath(fm) == fm.subjectPath \o <<"normalization">>

getNormalizationMethod(fm) ==
  IF fm.useBIDS
  THEN [dir |-> getNormalizationPath(fm) \o <<"log">>,
        base |-> fm.subjectID \o "_desc-normmethod", ext |-> ".json"]
  ELSE [dir |-> fm.subjectPath, base |-> "ea_coreg_approved", ext |-> ".mat"]

getANTSForwardWarp(fm) ==
  IF fm.useBIDS
  THEN [dir |-> getNormalizationPath(fm) \o <<"transformations">>,
        base |-> fm.subjectID \o "_from-anchorNative_to-MNI152NLin2009bAsym_desc-ants",
        ext |-> ".nii.gz"]
  ELSE [dir |-> fm.subjectPath, base |-> "glanatComposite", ext |-> ".nii.gz"]

getANTSInverseWarp(fm) ==
  IF fm.useBIDS
  THEN [dir |-> getNormalizationPath(fm) \o <<"transformations">>,
        base |-> fm.subjectID \o "_from-MNI152NLin2009bAsym_to-anchorNative_desc-ants",
        ext |-> ".nii.gz"]
  ELSE [dir |-> fm.subjectPath, base |-> "glanatInverseComposite", ext |-> ".nii.gz"]

\* path.endswith(suffix), for a suffix that is a whole extension
endswith(path, suffix) == path.ext = "." \o suffix

\* path.replace(old, new), for old an extension
replace(path, old, new) ==
  IF path.ext = old THEN [path EXCEPT !.ext = new] ELSE path

\* ------------------------------------------------------------ initial state
\* after WarpDriveWidget.setup(): no parameter node yet, the scene holds the
\* loaded transforms and the two fiducial nodes
WidgetInit ==
  /\ isEntered = FALSE
  /\ parameterNode = NoParameterNode
  /\ ui \in [inputSelector : {NULL}, outputSelector : {NULL},
             sourceFiducialsComboBox : {NULL}, targetFiducialsComboBox : {NULL},
             autoUpdateCheckBox : {FALSE},
             spacingSameAsInputCheckBox : {FALSE},
             spacingSpinBox : {20}, stiffnessSpinBox : {1},
             outputSelectorEnabled : {TRUE}, toolsEnabled : {TRUE},
             calculateEnabled : {TRUE},
             clickPending : {FALSE}]
  /\ updatingGUI = FALSE
  /\ transformNodeID = [n \in Nodes |-> NULL]
  /\ scene = Nodes \cup {"src", "tgt"}
  /\ sourceFiducial = <<>>
  /\ targetFiducial = <<>>
  /\ gridTransform = [n \in Nodes |-> [kind |-> "loaded"]]
  /\ commits = <<>>
  /\ launched = NoLaunch
  /\ warpdrive = [isdir |-> FALSE]
  /\ savedCount = 0
  /\ argv \in {"", "/subject"}
  /\ closes = 0
  /\ raised = ""

\* the subject directory as Lead-DBS left it: a BIDS subject whose forward
\* warp is already a displacement field
Init ==
  /\ WidgetInit
  /\ subject = [dirs |-> {"preprocessing"}, files |-> NoFiles, images |-> NoImages]
  /\ cwd = Home
  /\ calls = <<>>
  /\ imageNode = NULL

\* ------------------------------------------------------------------ actions
\* WarpDriveWidget.enter
enter ==
  /\ ~isEntered
  /\ LET node == IF parameterNode = NoParameterNode
                 THEN NewParameterNode ELSE parameterNode
         w == updateParameterNodeFromArgs(
                setParameterNode(World, node), argv)
     IN Becomes(w)
  /\ isEntered' = TRUE
  /\ UNCHANGED <<argv, closes>>

\* WarpDriveWidget.exit: the parameter node is no longer observed
exit ==
  /\ isEntered
  /\ isEntered' = FALSE
  /\ raised' = ""
  /\ launched' = NoLaunch
  /\ UNCHANGED <<parameterNode, ui, updatingGUI, transformNodeID, scene,
                 sourceFiducial, targetFiducial, gridTransform, commits,
                 warpdrive, savedCount, argv, closes, subject, cwd, calls,
                 imageNode>>

\* the user picks node n in the input selector
inputSelectorChanged(n) ==
  /\ isEntered
  /\ n \in Nodes \cap scene
  /\ n # ui.inputSelector
  /\ Becomes(updateParameterNodeFromGUI(
               [World EXCEPT !.ui.inputSelector = n]))
  /\ UNCHANGED <<isEntered, argv, closes>>

\* the user picks node n in the output selector: both slots run, in the order
\* they were connected
outputSelectorChanged(n) ==
  /\ isEntered
  /\ ui.outputSelectorEnabled
  /\ n \in Nodes \cap scene
  /\ n # ui.outputSelector
  /\ Becomes(updateParameterNodeFromGUI(onOutputNodeChanged(
               [World EXCEPT !.ui.outputSelector = n])))
  /\ UNCHANGED <<isEntered, argv, closes>>

\* the source and the target fiducial nodes are picked in their combo boxes
fiducialSelectorsChanged ==
  /\ isEntered
  /\ {"src", "tgt"} \subseteq scene
  /\ ui.sourceFiducialsComboBox = NULL
  /\ LET w1 == updateParameterNodeFromGUI(
                 [World EXCEPT !.ui.sourceFiducialsComboBox = "src"])
         w2 == updateParameterNodeFromGUI(
                 [w1 EXCEPT !.ui.targetFiducialsComboBox = "tgt"])
     IN Becomes(w2)
  /\ UNCHANGED <<isEntered, argv, closes>>

\* the user toggles the auto-update check box (no slot is connected to it)
autoUpdateToggled ==
  /\ isEntered
  /\ ui' = [ui EXCEPT !.autoUpdateCheckBox = ~@]
  /\ raised' = ""
  /\ UNCHANGED <<isEntered, parameterNode, updatingGUI, transformNodeID, scene,
                 sourceFiducial, targetFiducial, gridTransform, commits,
                 warpdrive, savedCount, argv, closes, subject, cwd, calls,
                 imageNode>>
  /\ launched' = NoLaunch

\* a tool edits the correspondence points, keeps the label map `masks` of
\* its strokes, and asks for an update
PointEdited(source, target, masks) ==
  Becomes(SetParameter([World EXCEPT !.source = source, !.target = target,
                                     !.scene = (@ \ {"mask"}) \cup masks],
                       "Update", "true"))

\* the tools are enabled and have the two nodes to write the points into
CanEditPoints ==
  /\ isEntered
  /\ ui.toolsEnabled
  /\ parameterNode # NoParameterNode
  /\ parameterNode.SourceFiducial # NULL
  /\ parameterNode.TargetFiducial # NULL
  /\ {"src", "tgt"} \subseteq scene

\* a drawing tool places the points of one stroke
addPoints ==
  /\ CanEditPoints
  /\ Len(targetFiducial) + StrokeLen <= MaxPoints
  /\ LET n == Len(targetFiducial)
         stroke == [i \in 1..StrokeLen |-> PointTable[n + i]]
     IN PointEdited(sourceFiducial \o [i \in 1..StrokeLen |-> stroke[i].source],
                    targetFiducial \o
                      [i \in 1..StrokeLen |->
                         [position |-> stroke[i].target,
                          selected |-> stroke[i].selected,
                          description |-> stroke[i].description]],
                    {"mask"})
  /\ UNCHANGED <<isEntered, argv, closes>>

\* the points of the last stroke are removed
removePoints ==
  /\ CanEditPoints
  /\ Len(targetFiducial) >= StrokeLen
  /\ PointEdited(SubSeq(sourceFiducial, 1, Len(sourceFiducial) - StrokeLen),
                 SubSeq(targetFiducial, 1, Len(targetFiducial) - StrokeLen),
                 IF Len(targetFiducial) > StrokeLen THEN {"mask"} ELSE {})
  /\ UNCHANGED <<isEntered, argv, closes>>

\* the user clicks the calculate button
calculateClicked ==
  /\ isEntered
  /\ ui.calculateEnabled
  /\ Len(commits) < MaxCommits
  /\ Becomes(onCalculateButtonBody(World, Len(commits) + 1))
  /\ UNCHANGED <<isEntered, argv, closes>>

\* the timer of animateClick delivers the click
animatedClick ==
  /\ ui.clickPending
  /\ Len(commits) < MaxCommits
  /\ Becomes(onCalculateButtonBody(
               [World EXCEPT !.ui.clickPending = FALSE],
               Len(commits) + 1))
  /\ UNCHANGED <<isEntered, argv, closes>>

\* the status of a command line module node as the solver proceeds
StatusTransitions ==
  {<<"Scheduled", "Running">>, <<"Running", "Completed">>,
   <<"Running", "Failed">>, <<"Running", "Cancelled">>}

Terminal == {"Completed", "Failed", "Cancelled"}

\* the solver of commit k changes status to s: StatusModifiedEvent runs the
\* observer added by onCalculateButton
statusModified(k, s) ==
  /\ k \in 1..Len(commits)
  /\ <<commits[k].status, s>> \in StatusTransitions
  /\ LET c == commits[k]
         w0 == [World EXCEPT
                  !.commits[k].status = s,
                  !.commits[k].timer = (s = "Completed"),
                  !.grids = IF s = "Completed" /\ c.outputNode \in scene
                            THEN [@ EXCEPT ![c.outputNode] = [kind |-> "displacement"]]
                            ELSE @]
     IN Becomes(onStatusModifiedEvent(w0, s, c.outputNode, c.visualizationNodes,
                                      c.auxVolumeNode))
  /\ UNCHANGED <<isEntered, argv, closes>>

\* qt.QTimer.singleShot(1000, ...): the completed command line module node is
\* removed from the scene
removeCLINode(k) ==
  /\ k \in 1..Len(commits)
  /\ commits[k].timer
  /\ Becomes([World EXCEPT !.commits[k].timer = FALSE,
                           !.scene = @ \ {"cli" \o ToString(k)}])
  /\ UNCHANGED <<isEntered, argv, closes>>

\* the scene is closed: onSceneStartClose, the scene's nodes are removed,
\* onSceneEndClose
sceneClosed ==
  /\ closes < MaxCloses
  /\ LET w0 == [World EXCEPT
                  !.pn = NoParameterNode,
                  !.observed = FALSE,
                  !.scene = {},
                  !.ui.inputSelector = NULL,
                  !.ui.outputSelector = NULL,
                  !.ui.sourceFiducialsComboBox = NULL,
                  !.ui.targetFiducialsComboBox = NULL,
                  !.tid = [n \in Nodes |-> NULL],
                  !.source = <<>>,
                  !.target = <<>>,
                  !.grids = [n \in Nodes |-> [kind |-> "removed"]]]
     IN Becomes(IF isEntered THEN setParameterNode(w0, NewParameterNode) ELSE w0)
  /\ closes' = closes + 1
  /\ UNCHANGED <<isEntered, argv>>

Next ==
  \/ enter
  \/ exit
  \/ \E n \in Inputs : inputSelectorChanged(n)
  \/ \E n \in Nodes : outputSelectorChanged(n)
  \/ fiducialSelectorsChanged
  \/ autoUpdateToggled
  \/ addPoints
  \/ removePoints
  \/ calculateClicked
  \/ animatedClick
  \/ \E k \in 1..MaxCommits : \E s \in Terminal \cup {"Running"} : statusModified(k, s)
  \/ \E k \in 1..MaxCommits : removeCLINode(k)
  \/ sceneClosed

Spec == Init /\ [][Next]_vars

\* ------------------------------------------------------------ the selectors
\* both transform nodes of the scene hold a grid: the user can choose either
\* as the input and either as the output
SelectorNext ==
  \/ enter
  \/ exit
  \/ \E n \in Nodes : inputSelectorChanged(n)
  \/ \E n \in Nodes : outputSelectorChanged(n)
  \/ fiducialSelectorsChanged
  \/ autoUpdateToggled
  \/ sceneClosed

SelectorSpec == Init /\ [][SelectorNext]_vars

\* ------------------------------------------------------ automatic commits
\* The user sets the module up, chooses auto-update and draws before the
\* first commit, may click the button, and takes the stroke back while a
\* commit is running; the solver always completes.  The timers and the solver are the steps that
\* happen without the user.
userPrepares ==
  /\ commits = <<>>
  /\ \/ enter
     \/ \E n \in Inputs : inputSelectorChanged(n)
     \/ \E n \in Nodes : outputSelectorChanged(n)
     \/ fiducialSelectorsChanged
     \/ autoUpdateToggled
     \/ addPoints

removePointsDuringCommit ==
  /\ \E k \in 1..Len(commits) : commits[k].status \in {"Scheduled", "Running"}
  /\ removePoints

solverProceeds ==
  \E k \in 1..MaxCommits : \E s \in {"Running", "Completed"} : statusModified(k, s)

AutoNext ==
  \/ userPrepares
  \/ calculateClicked
  \/ removePointsDuringCommit
  \/ animatedClick
  \/ solverProceeds
  \/ \E k \in 1..MaxCommits : removeCLINode(k)

\* animatedClick can happen, and solverProceeds can
ClickDue == ui.clickPending /\ Len(commits) < MaxCommits

SolverDue ==
  \E k \in 1..Len(commits) : commits[k].status \in {"Scheduled", "Running"}

\* The timer of line 408 fires, the click animateClick left pending is
\* delivered, and the solver goes on until it has completed.  A delivered
\* click leaves none pending and the solvers of the commits finish one after
\* the other, so weak fairness of animatedClick and of solverProceeds says
\* that each is again and again not due.
AutoSpec ==
  /\ Init
  /\ [][AutoNext]_vars
  /\ WF_vars(\E k \in 1..MaxCommits : removeCLINode(k))
  /\ []<>~ClickDue
  /\ []<>~SolverDue

\* ------------------------------------------------- the resolution of the grid
\* values the user gives the spacing spin box (its range is set in the .ui
\* file; the handlers do not test the value)
SpinBoxValues == {0, 15, 30}

\* values a script or another module gives the Spacing parameter
ScriptValues == {-10}

\* the user edits the spacing spin box: valueChanged runs
\* updateParameterNodeFromGUI (line 110); the spin box is disabled while
\* "same as input" is checked (line 99)
spacingSpinBoxChanged(v) ==
  /\ isEntered
  /\ ~ui.spacingSameAsInputCheckBox
  /\ v # ui.spacingSpinBox
  /\ Becomes(updateParameterNodeFromGUI([World EXCEPT !.ui.spacingSpinBox = v]))
  /\ UNCHANGED <<isEntered, argv, closes>>

\* a script sets the Spacing parameter of the parameter node: the observer
\* shows it in the spin box (line 283)
spacingParameterSet(v) ==
  /\ parameterNode # NoParameterNode
  /\ Becomes(SetParameter(World, "Spacing", FloatStr(v)))
  /\ UNCHANGED <<isEntered, argv, closes>>

\* the user toggles "spacing same as input" with an input node chosen:
\* toggled runs updateParameterNodeFromGUI (line 109)
spacingSameAsInputToggled ==
  /\ isEntered
  /\ ui.inputSelector # NULL
  /\ Becomes(updateParameterNodeFromGUI(
               [World EXCEPT !.ui.spacingSameAsInputCheckBox = ~@]))
  /\ UNCHANGED <<isEntered, argv, closes>>

\* the handlers that decide the grid of a commit
GridNext ==
  \/ enter
  \/ \E n \in Inputs : inputSelectorChanged(n)
  \/ \E n \in Nodes : outputSelectorChanged(n)
  \/ fiducialSelectorsChanged
  \/ \E v \in SpinBoxValues : spacingSpinBoxChanged(v)
  \/ \E v \in ScriptValues : spacingParameterSet(v)
  \/ spacingSameAsInputToggled
  \/ calculateClicked

GridSpec == Init /\ [][GridNext]_vars


\* ------------------------------------------------------------ approval data
\* The handlers of LeadDBSCall that work on the subject directory are
\* functions of a record f:
\*   disk   the subject directory
\*   cwd    the working directory of the process
\*   calls  the calls made so far
\*   scene  the nodes of the scene
\*   exc    the exception raised so far ("" when none)
FileWorld ==
  [disk |-> subject, cwd |-> cwd, calls |-> <<>>, scene |-> scene, exc |-> ""]

FileBecomes(f) ==
  /\ subject' = f.disk
  /\ cwd' = f.cwd
  /\ calls' = f.calls
  /\ scene' = f.scene
  /\ raised' = f.exc
  /\ launched' = NoLaunch
  /\ UNCHANGED <<isEntered, parameterNode, ui, updatingGUI, transformNodeID,
                 sourceFiducial, targetFiducial, gridTransform, commits,
                 warpdrive, savedCount, argv, closes, imageNode>>

Called(f, fn, arg) == [f EXCEPT !.calls = Append(@, [fn |-> fn, arg |-> arg])]

isfile(f, path) == path \in DOMAIN f.disk.files

WriteFile(f, path, content) ==
  [f EXCEPT !.disk.files =
     [x \in DOMAIN @ \cup {path} |-> IF x = path THEN content ELSE @[x]]]

RemoveFile(f, path) ==
  [f EXCEPT !.disk.files = [x \in DOMAIN @ \ {path} |-> @[x]]]

\* a text file holds a sequence of JSON documents; a well-formed JSON file
\* holds one
TextFile(docs) == [kind |-> "text", docs |-> docs]

\* a .mat file: kind "hdf5" (MATLAB 7.3) or "mat5", and its variables
MatFile(kind, variables) == [kind |-> kind, vars |-> variables]

\* open(file, 'a+'): the file is created when it does not exist; the stream
\* is positioned at the end of the file
OpenAppend(f, file) ==
  Called(IF isfile(f, file) THEN f ELSE WriteFile(f, file, TextFile(<<>>)),
         "open", file)

\* saveApprovedDataJSON: json.load reads from the position of the stream to
\* the end; json.dump on a stream in append mode writes at the end
saveApprovedDataJSON(f, file) ==
  LET f1 == OpenAppend(f, file)
      docs == f1.disk.files[file].docs
      position == Len(docs)
      rest == SubSeq(docs, position + 1, Len(docs))
  IN IF Len(rest) # 1 THEN Raise(f1, "JSONDecodeError")
     ELSE WriteFile(f1, file, TextFile(docs \o <<SetItem(rest[1], "approval", 1)>>))

\* the keys io.loadmat adds to the variables of the file, which io.savemat
\* does not write
Private == {"__header__", "__version__", "__globals__"}

loadmat(content) ==
  [k \in DOMAIN content.vars \cup Private |->
     IF k \in Private THEN 0 ELSE content.vars[k]]

savemat(dict) == MatFile("mat5", [k \in DOMAIN dict \ Private |-> dict[k]])

\* hdf5storage.write(data, '.', filename): the variables of data are written
\* into the file of that name in the working directory, made when missing
hdf5storageWrite(f, data, filename) ==
  LET target == [dir |-> f.cwd, base |-> filename.base, ext |-> filename.ext]
      old == IF isfile(f, target) THEN f.disk.files[target].vars ELSE data
  IN Called(WriteFile(f, target,
                      MatFile("hdf5", [k \in DOMAIN old \cup DOMAIN data |->
                                         IF k \in DOMAIN data THEN data[k] ELSE old[k]])),
            "hdf5storage.write", target)

\* os.chdir
chdir(f, dir) == Called([f EXCEPT !.cwd = dir], "os.chdir", dir)

\* lines 145-151
SaveInDirectory(f, file, matfiledata, currentDir) ==
  chdir(hdf5storageWrite(chdir(f, file.dir), matfiledata,
                         [base |-> "ea_coreg_approved", ext |-> ".mat"]),
        currentDir)

\* lines 131-140: the second reader, and its own save
UseOtherReader(f, file) ==
  LET content == f.disk.files[file]
  IN IF content.kind # "mat5" THEN Raise(Called(f, "io.loadmat", file), "ValueError")
     ELSE Called(WriteFile(Called(f, "io.loadmat", file), file,
                           savemat(SetItem(CopyExcept(loadmat(content), "glanat"),
                                           "glanat", ApprovedSentinel))),
                 "io.savemat", file)

\* saveApprovedDataLegacy keeping none of the variables of the file
saveApprovedDataLegacyFresh(f, file) ==
  IF isfile(f, file)
  THEN IF f.disk.files[file].kind = "hdf5"
       THEN SaveInDirectory(Called(f, "h5py.File", file), file,
                            [glanat |-> ApprovedSentinel], f.cwd)
       ELSE Called(WriteFile(Called(Called(f, "h5py.File", file), "io.loadmat", file),
                             file, MatFile("mat5", [glanat |-> ApprovedSentinel])),
                   "io.savemat", file)
  ELSE SaveInDirectory(f, file, [glanat |-> ApprovedSentinel], f.cwd)

\* saveApprovedDataLegacy without the os.chdir(currentDir) of line 151
saveApprovedDataLegacyStays(f, file) ==
  IF isfile(f, file)
  THEN IF f.disk.files[file].kind = "hdf5"
       THEN hdf5storageWrite(chdir(Called(f, "h5py.File", file), file.dir),
                             SetItem(CopyExcept(f.disk.files[file].vars, "glanat"),
                                     "glanat", ApprovedSentinel),
                             [base |-> "ea_coreg_approved", ext |-> ".mat"])
       ELSE UseOtherReader(Called(f, "h5py.File", file), file)
  ELSE hdf5storageWrite(chdir(f, file.dir), [glanat |-> ApprovedSentinel],
                        [base |-> "ea_coreg_approved", ext |-> ".mat"])

\* saveApprovedDataLegacy: h5py reads a MATLAB 7.3 file, anything else makes
\* it raise and the bare except tries io.loadmat
saveApprovedDataLegacy(f, file) ==
  IF isfile(f, file)
  THEN IF f.disk.files[file].kind = "hdf5"
       THEN SaveInDirectory(Called(f, "h5py.File", file), file,
                            SetItem(CopyExcept(f.disk.files[file].vars, "glanat"),
                                    "glanat", ApprovedSentinel),
                            f.cwd)
       ELSE UseOtherReader(Called(f, "h5py.File", file), file)
  ELSE SaveInDirectory(f, file, [glanat |-> ApprovedSentinel], f.cwd)

\* saveApprovedData with the legacy writer for every subject
saveApprovedDataAlwaysLegacy(f, subjectPath) ==
  saveApprovedDataLegacy(
    Called(f, "saveApprovedDataLegacy",
           getNormalizationMethod(LeadFileManager(f.disk, subjectPath))),
    getNormalizationMethod(LeadFileManager(f.disk, subjectPath)))

\* saveApprovedData(subjectPath)
saveApprovedData(f, subjectPath) ==
  LET normalizationMethodFile ==
        getNormalizationMethod(LeadFileManager(f.disk, subjectPath))
  IN IF endswith(normalizationMethodFile, "json")
     THEN saveApprovedDataJSON(
            Called(f, "saveApprovedDataJSON", normalizationMethodFile),
            normalizationMethodFile)
     ELSE saveApprovedDataLegacy(
            Called(f, "saveApprovedDataLegacy", normalizationMethodFile),
            normalizationMethodFile)

\* the answers of the message box
Answers == {"Save", "Discard", "Cancel"}

\* return value: the handler returns unless it has raised
Returns(f, value) == IF f.exc # "" THEN f ELSE Called(f, "return", value)

\* lines 193-198, the message box answered with ret
queryUserApproveSubjectBody(f, subjectPath, ret) ==
  IF ret = "Cancel" THEN Returns(f, "False")
  ELSE Returns(IF ret = "Save" THEN saveApprovedData(f, subjectPath) ELSE f,
               "True")

\* queryUserApproveSubject(subjectPath), the user answering ret
queryUserApproveSubject(ret) ==
  /\ ret \in Answers
  /\ FileBecomes(queryUserApproveSubjectBody(FileWorld, SubjectPath, ret))

\* the variables an approval file can hold: the flag of the normalization
\* and those of the coregistrations
MatVariables ==
  UNION {{[k \in keys |-> IF k = "glanat" THEN g ELSE a] : g \in 0..ApprovedSentinel, a \in 0..1} :
           keys \in {{"anat_t1"}, {"glanat", "anat_t1"}, {"glanat", "anat_t1", "anat_t2"}}}

\* the objects a normalization method file can hold
JSONObjects ==
  {[method |-> "ANTs"], [method |-> "ANTs", approval |-> 0],
   [method |-> "ANTs", approval |-> 1]}

\* the contents of the normalization method file Lead-DBS can have left
MethodFiles(fm) ==
  IF fm.useBIDS
  THEN {TextFile(<<o>>) : o \in JSONObjects} \cup {TextFile(<<>>)}
  ELSE {MatFile(kind, v) : kind \in {"hdf5", "mat5"}, v \in MatVariables}
         \cup {TextFile(<<>>)}

\* the subject directories: BIDS or legacy, with or without the file
ApprovalSubjects ==
  UNION {LET d == [dirs |-> dirs, files |-> NoFiles, images |-> NoImages]
             file == getNormalizationMethod(LeadFileManager(d, SubjectPath))
         IN {d} \cup {[d EXCEPT !.files = [x \in {file} |-> c]] :
                        c \in MethodFiles(LeadFileManager(d, SubjectPath))} :
           dirs \in {{}, {"preprocessing"}, {"normalization"},
                     {"preprocessing", "normalization"}}}

ApprovalInit ==
  /\ WidgetInit
  /\ subject \in ApprovalSubjects
  /\ cwd \in {Home, SubjectPath}
  /\ calls = <<>>
  /\ imageNode = NULL

ApprovalNext == \E ret \in Answers : queryUserApproveSubject(ret)

ApprovalSpec == ApprovalInit /\ [][ApprovalNext]_vars

\* ------------------------------------------- migration of the warp fields
\* glob.glob of the pattern of the layout
getNormalizedImages(fm) == [exc |-> "", value |-> fm.images.normalized]

\* the legacy branch calls glob.glon, which the glob module does not have
getCoregImages(fm) ==
  IF fm.useBIDS THEN [exc |-> "", value |-> fm.images.coreg]
  ELSE [exc |-> "AttributeError", value |-> <<>>]

\* a warp stored as a composite transform, and one stored as a displacement
\* field
CompositeFile == [kind |-> "composite"]

DisplacementFile == [kind |-> "displacement"]

\* transform + '.h5'; os.path.join(directory, ...) of an absolute path is the
\* path
WithH5Appended(transform) == [transform EXCEPT !.ext = @ \o ".h5"]

\* call(command, shell=True) of antsApplyTransforms -r reference -t h5transform
\* -o [transform,1], the tool ending with exit code `code` (non-zero when it
\* cannot read its input): on success the displacement field is written
antsApplyTransforms(f, reference, h5transform, transform, code) ==
  LET commandOut == IF isfile(f, h5transform) THEN code ELSE 1
  IN Called(IF commandOut = 0 THEN WriteFile(f, transform, DisplacementFile) ELSE f,
            "antsApplyTransforms",
            [r |-> reference, t |-> h5transform, o |-> transform,
             exit |-> commandOut])

\* os.remove(path)
remove(f, path) ==
  IF isfile(f, path) THEN Called(RemoveFile(f, path), "os.remove", path)
  ELSE Raise(f, "FileNotFoundError")

\* lines 179-185: one round of the loop
UpdateOne(f, transform, reference, code) ==
  IF f.exc # "" THEN f
  ELSE IF ~isfile(f, WithH5Appended(transform)) THEN f
  ELSE remove(antsApplyTransforms(f, reference, replace(transform, ".nii.gz", ".h5"),
                                  transform, code),
              replace(transform, ".nii.gz", ".h5"))

\* line 186
ReturnTrue(f) == IF f.exc # "" THEN f ELSE Called(f, "return", "True")

\* updateTranform(directory, antsApplyTransformsPath); codes[i] is the exit
\* code of the tool in round i
updateTranform(f, directory, codes) ==
  LET bidsSubject == LeadFileManager(f.disk, directory)
      normalized == getNormalizedImages(bidsSubject)
      coreg == getCoregImages(bidsSubject)
  IN IF Len(normalized.value) = 0 THEN Raise(f, "IndexError")
     ELSE IF coreg.exc # "" THEN Raise(f, coreg.exc)
     ELSE IF Len(coreg.value) = 0 THEN Raise(f, "IndexError")
     ELSE ReturnTrue(
            UpdateOne(
              UpdateOne(f, getANTSForwardWarp(bidsSubject), normalized.value[1], codes[1]),
              getANTSInverseWarp(bidsSubject), coreg.value[1], codes[2]))

\* slicer.util.loadTransform(path): the node is added to the scene, or the
\* call raises when the file cannot be read
loadTransform(f, path) ==
  IF f.exc # "" THEN f
  ELSE IF ~isfile(f, path) THEN Raise(Called(f, "loadTransform", path), "RuntimeError")
  ELSE Called([f EXCEPT !.scene = @ \cup {path.base}], "loadTransform", path)

\* loadSubjectTransform(subjectPath, antsApplyTransformsPath)
loadSubjectTransformBody(f, subjectPath, codes) ==
  LET transformPath == getANTSForwardWarp(LeadFileManager(f.disk, subjectPath))
  IN loadTransform(
       IF isfile(f, replace(transformPath, ".nii.gz", ".h5"))
       THEN updateTranform(f, subjectPath, codes)
       ELSE f,
       transformPath)

\* exit codes of the tool
ExitCodes == {0, 1}

\* the subject is loaded
loadSubjectTransform(codes) ==
  /\ codes \in [1..2 -> ExitCodes]
  /\ FileBecomes(loadSubjectTransformBody(FileWorld, SubjectPath, codes))

\* the warp files a subject directory can hold: for each direction the
\* displacement field, the composite transform next to it, and a file named
\* as line 180 builds the name
WarpFiles(fm) ==
  UNION {{t, replace(t, ".nii.gz", ".h5"), WithH5Appended(t)} :
           t \in {getANTSForwardWarp(fm), getANTSInverseWarp(fm)}}

ImageLists == {<<>>, <<"anat_t1.nii">>}

MigrationSubjects ==
  UNION {LET d == [dirs |-> dirs, files |-> NoFiles, images |-> NoImages]
         IN {[d EXCEPT !.files = [x \in present |->
                                    IF x.ext = ".nii.gz" THEN DisplacementFile
                                    ELSE CompositeFile],
                       !.images = [normalized |-> n, coreg |-> c]] :
               present \in SUBSET WarpFiles(LeadFileManager(d, SubjectPath)),
               n \in ImageLists, c \in ImageLists} :
           dirs \in {{}, {"preprocessing"}}}

MigrationInit ==
  /\ WidgetInit
  /\ subject \in MigrationSubjects
  /\ cwd = Home
  /\ calls = <<>>
  /\ imageNode = NULL

MigrationNext == \E codes \in [1..2 -> ExitCodes] : loadSubjectTransform(codes)

MigrationSpec == MigrationInit /\ [][MigrationNext]_vars

\* ------------------------------------------------- discarding the corrections
\* The subject hierarchy: for each node the item it hangs under ("scene" for
\* the root), whether it is a folder (a vtkMRMLFolderDisplayNode) and whether
\* its item carries the attribute 'correction'.  Besides the nodes of the
\* widget there are a correction folder with the point lists and the label
\* map of one stroke, a folder inside it, a list of fixed points, and a
\* folder of the user's with a model.
Item(parent, folder, correction) ==
  [parent |-> parent, folder |-> folder, correction |-> correction]

SubjectHierarchy ==
  [n \in Nodes |-> Item("scene", FALSE, FALSE)] @@
  [n \in {"src", "tgt", "mask", "fixed1"} |-> Item("scene", FALSE, TRUE)] @@
  ("correction1" :> Item("scene", TRUE, TRUE)) @@
  [n \in {"source1", "target1", "stroke1"} |-> Item("correction1", FALSE, TRUE)] @@
  ("correction2" :> Item("correction1", TRUE, TRUE)) @@
  ("source2" :> Item("correction2", FALSE, TRUE)) @@
  ("notes" :> Item("scene", TRUE, FALSE)) @@
  ("atlas" :> Item("notes", FALSE, FALSE))

\* the order in which the scene lists its nodes
SceneOrder ==
  <<"n1", "n2", "src", "tgt", "mask", "fixed1", "correction2", "source2",
    "notes", "atlas", "correction1", "source1", "target1", "stroke1">>

\* the items above a node, up to the root
RECURSIVE Ancestors(_)
Ancestors(n) ==
  IF SubjectHierarchy[n].parent = "scene" THEN {}
  ELSE {SubjectHierarchy[n].parent} \cup Ancestors(SubjectHierarchy[n].parent)

\* shNode.GetItemChildren(nodeID, removeIDs, True): the items under a node,
\* at any depth
GetItemChildren(sc, node) == {n \in sc : node \in Ancestors(n)}

\* shNode.RemoveItem(id): the item and its data node leave the scene
RemoveItem(f, id) ==
  IF id \in f.scene THEN Called([f EXCEPT !.scene = @ \ {id}], "RemoveItem", id)
  ELSE f

\* the loop of lines 305-306 over removeIDs
RECURSIVE RemoveItems(_, _, _)
RemoveItems(f, removeIDs, i) ==
  IF i > Len(removeIDs) THEN f
  ELSE RemoveItems(RemoveItem(f, removeIDs[i]), removeIDs, i + 1)

\* removeNodeAndChildren(node): the children first, then the node
removeNodeAndChildren(f, node) ==
  RemoveItems(f,
              SelectSeq(SceneOrder, LAMBDA n : n \in GetItemChildren(f.scene, node))
                \o <<node>>,
              1)

\* the loop of lines 291-294 over the folder nodes the scene held when the
\* function was called; the item of a node that has left the scene has no
\* attributes
RECURSIVE DeleteFolders(_, _, _)
DeleteFolders(f, folderNodes, i) ==
  IF i > Len(folderNodes) THEN f
  ELSE DeleteFolders(
         IF folderNodes[i] \in f.scene /\ SubjectHierarchy[folderNodes[i]].correction
         THEN removeNodeAndChildren(f, folderNodes[i])
         ELSE f,
         folderNodes, i + 1)

\* DeleteCorrections()
DeleteCorrectionsBody(f) ==
  DeleteFolders(f,
                SelectSeq(SceneOrder,
                          LAMBDA n : n \in f.scene /\ SubjectHierarchy[n].folder),
                1)

\* the session is discarded
DeleteCorrections ==
  /\ FileBecomes(DeleteCorrectionsBody(FileWorld))

\* a tool or the user adds node n under its parent
itemAdded(n) ==
  /\ n \in DOMAIN SubjectHierarchy
  /\ n \notin scene
  /\ SubjectHierarchy[n].parent \in scene \cup {"scene"}
  /\ FileBecomes([FileWorld EXCEPT !.scene = @ \cup {n}])

DiscardNext ==
  \/ \E n \in DOMAIN SubjectHierarchy : itemAdded(n)
  \/ DeleteCorrections

DiscardSpec == Init /\ [][DiscardNext]_vars


\* ------------------------------------------------------ applying the changes
\* applyChanges works on the subject directory, the scene, the transform
\* nodes and the image node: the record of the file handlers with
\*   tid    for each transform node, the transform node it observes
\*   grids  the content of each transform node
\*   image  the transform node the image node observes
ApplyWorld ==
  [disk |-> subject, cwd |-> cwd, calls |-> <<>>, scene |-> scene, exc |-> "",
   tid |-> transformNodeID, grids |-> gridTransform, image |-> imageNode]

ApplyBecomes(f) ==
  /\ subject' = f.disk
  /\ cwd' = f.cwd
  /\ calls' = f.calls
  /\ scene' = f.scene
  /\ raised' = f.exc
  /\ transformNodeID' = f.tid
  /\ gridTransform' = f.grids
  /\ imageNode' = f.image
  /\ launched' = NoLaunch
  /\ UNCHANGED <<isEntered, parameterNode, ui, updatingGUI, sourceFiducial,
                 targetFiducial, commits, warpdrive, savedCount, argv, closes>>

\* node.HardenTransform(): the transform the node observes is composed into
\* the node's own, and the node observes nothing
HardenTransform(f, node) ==
  IF f.tid[node] = NULL THEN f
  ELSE [f EXCEPT
          !.grids[node] = [kind |-> "composite", own |-> f.grids[node],
                           parent |-> f.grids[f.tid[node]]],
          !.tid[node] = NULL]

\* logic().ConvertToGridTransform(node, reference, outNode): what outNode
\* gets, the transform sampled as displacements on the grid of reference
ConvertToGridTransform(content, reference) ==
  [kind |-> "grid", of |-> content, reference |-> reference]

\* node.Inverse(): the transform is marked as its inverse, or the mark is
\* taken off
Inverse(f, node) ==
  Called([f EXCEPT !.grids[node] = IF @.kind = "inverse" THEN @.of
                                   ELSE [kind |-> "inverse", of |-> @]],
         "Inverse", node)

\* slicer.util.saveNode(node, path): the transform of the node is written
saveNode(f, content, path) ==
  Called(WriteFile(f, path, [kind |-> "displacement", field |-> content]),
         "saveNode", path)

\* lines 208-219: the input is hardened and resampled on its own grid, the
\* two auxiliary nodes are added and removed, the forward warp is saved
Forward(f, subjectPath, inputNode) ==
  saveNode(
    [HardenTransform(f, inputNode) EXCEPT
       !.grids[inputNode] =
          ConvertToGridTransform(
            HardenTransform(f, inputNode).grids[inputNode],
            emptyVolume(getGridDefinition(inputNode).size,
                        getGridDefinition(inputNode).origin,
                        getGridDefinition(inputNode).spacing)),
       !.scene = (@ \cup {"outNode", "referenceVolume"})
                   \ {"outNode", "referenceVolume"}],
    ConvertToGridTransform(
      HardenTransform(f, inputNode).grids[inputNode],
      emptyVolume(getGridDefinition(inputNode).size,
                  getGridDefinition(inputNode).origin,
                  getGridDefinition(inputNode).spacing)),
    getANTSForwardWarp(LeadFileManager(f.disk, subjectPath)))

\* lines 223-230: the inverse of the input resampled on the grid of the
\* image is saved, the auxiliary node is added and removed
SaveBackward(f, subjectPath, inputNode) ==
  saveNode([f EXCEPT !.scene = (@ \cup {"outNode"}) \ {"outNode"}],
           ConvertToGridTransform(f.grids[inputNode], "imageNode"),
           getANTSInverseWarp(LeadFileManager(f.disk, subjectPath)))

\* applyChanges without line 233: the input is left inverted
applyChangesLeavesInverse(f, subjectPath, inputNode) ==
  [SaveBackward(Inverse(Forward([f EXCEPT !.image = NULL], subjectPath, inputNode),
                        inputNode),
                subjectPath, inputNode)
     EXCEPT !.image = inputNode]

\* applyChanges(subjectPath, inputNode, imageNode)
applyChangesBody(f, subjectPath, inputNode) ==
  [Inverse(SaveBackward(Inverse(Forward([f EXCEPT !.image = NULL],
                                        subjectPath, inputNode),
                                inputNode),
                        subjectPath, inputNode),
           inputNode)
     EXCEPT !.image = inputNode]

\* how deep the content of a transform node is nested
RECURSIVE Nesting(_)
Nesting(content) ==
  IF content.kind \in {"grid", "inverse"} THEN 1 + Nesting(content.of)
  ELSE IF content.kind = "composite" THEN 1 + Nesting(content.own)
  ELSE 0

\* the corrections are applied to the warp of the subject
applyChanges(inputNode) ==
  /\ inputNode \in scene
  /\ gridTransform[inputNode].kind # "removed"
  /\ Nesting(gridTransform[inputNode]) < MaxNesting
  /\ ApplyBecomes(applyChangesBody(ApplyWorld, SubjectPath, inputNode))

\* the subject is BIDS or legacy, the image shows the warp or not yet
ApplyInit ==
  /\ WidgetInit
  /\ subject \in {[dirs |-> dirs, files |-> NoFiles, images |-> NoImages] :
                    dirs \in {{}, {"preprocessing"}}}
  /\ cwd = Home
  /\ calls = <<>>
  /\ imageNode \in {NULL} \cup Inputs

\* corrections are computed and applied
ApplyNext ==
  \/ enter
  \/ \E n \in Inputs : inputSelectorChanged(n)
  \/ \E n \in Nodes : outputSelectorChanged(n)
  \/ fiducialSelectorsChanged
  \/ calculateClicked
  \/ \E n \in Inputs : applyChanges(n)

ApplySpec == ApplyInit /\ [][ApplyNext]_vars


\* =================================================================== claims
\* a commit whose solver has neither completed nor failed nor been cancelled
Outstanding(c) == c.status \in {"Scheduled", "Running"}

HasOutstanding == \E k \in 1..Len(commits) : Outstanding(commits[k])

\* this step is a call of onCalculateButton that got past its first statement
CommitStep == Len(commits') = Len(commits) + 1

\* this step reports status s for the solver of commit k
Reports(k, s) ==
  /\ k \in 1..Len(commits)
  /\ Outstanding(commits[k])
  /\ commits'[k].status = s

\* the nodes onCalculateButton created for commit record c
Artifacts(c) == c.visualizationNodes \cup {c.auxVolumeNode}

\* the parameter node references the two lists of correspondence points
HasCorrespondenceNodes ==
  /\ parameterNode # NoParameterNode
  /\ parameterNode.SourceFiducial # NULL
  /\ parameterNode.TargetFiducial # NULL

\* C1: at most one solver invocation is outstanding at any time; a commit
\* request that arrives while an earlier commit is still running starts no
\* second solver.
C1_OneSolverOutstanding ==
  Cardinality({k \in 1..Len(commits) : Outstanding(commits[k])}) <= 1

\* C2: when the solver of a commit ends Failed or Cancelled, the input node
\* observes the transform it observed just before that commit was requested,
\* and the source and target points are unchanged.
C2_FailureRestoresTransform ==
  [][\A k \in 1..Len(commits) : \A s \in {"Failed", "Cancelled"} :
       Reports(k, s) =>
         /\ transformNodeID'[commits[k].inputNode] = commits[k].detachedFrom
         /\ sourceFiducial' = sourceFiducial
         /\ targetFiducial' = targetFiducial]_vars

\* C3: every commit cycle returns to Idle: once every solver started so far
\* has reported a terminal status (Completed, Failed or Cancelled) and no
\* click is waiting to be delivered, the session is not marked running.
C3_ReturnsToIdle ==
  (/\ parameterNode # NoParameterNode
   /\ ~HasOutstanding
   /\ ~ui.clickPending)
    => parameterNode.Running # "true"

\* C4: when the solver of a commit has ended Failed or Cancelled, the preview
\* transform node, the glyph point node and the auxiliary volume of that
\* commit are no longer in the scene.
C4_FailureRemovesArtifacts ==
  \A k \in 1..Len(commits) :
    commits[k].status \in {"Failed", "Cancelled"} =>
      Artifacts(commits[k]) \cap scene = {}

\* C5: when the solver of a commit reports Completed, the handler returns
\* with the commit's input node observing the commit's output node, the
\* preview transform node, the glyph node and the auxiliary volume out of the
\* scene, and Running set to false.
C5_CompletedApplies ==
  [][\A k \in 1..Len(commits) :
       Reports(k, "Completed") =>
         /\ raised' = ""
         /\ transformNodeID'[commits[k].inputNode] = commits[k].outputNode
         /\ Artifacts(commits[k]) \cap scene' = {}
         /\ parameterNode' # NoParameterNode
         /\ parameterNode'.Running = "false"]_vars

SelectedRadii ==
  LET sel == SelectSeq(targetFiducial, LAMBDA p : p.selected)
  IN [i \in 1..Len(sel) |-> sel[i].description]

\* C7: a commit with a non-empty correspondence set launches exactly one
\* solver invocation: fixed points the target list, moving points the source
\* list, output the output transform node, stiffness the Stiffness parameter,
\* radius string the comma-join in index order of the selected points' radius
\* annotations.
C7_SolverInvocation ==
  [][(CommitStep /\ Len(sourceFiducial) # 0) =>
       LET k == Len(commits')
       IN /\ raised' = ""
          /\ launched'.cliNode =
               [status |-> "Scheduled",
                referenceVolume |-> commits'[k].auxVolumeNode,
                fixedFiducials |-> parameterNode.TargetFiducial,
                movingFiducials |-> parameterNode.SourceFiducial,
                outputDisplacementField |-> parameterNode.OutputGridTransform,
                RBFRadius |-> Join(SelectedRadii),
                stiffness |-> Float(parameterNode.Stiffness)]
          /\ commits'[k].status = "Scheduled"
          /\ {n \in scene' \ scene : \E j \in 1..k : n = "cli" \o ToString(j)}
               = {"cli" \o ToString(k)}
          /\ \A j \in 1..Len(commits) : commits'[j].status = commits[j].status]_vars

\* C7 witness: a solver has just been launched with the radii of two selected
\* points, the unselected point between them left out.
C7_Witness ==
  /\ launched.cliNode.status = "Scheduled"
  /\ launched.cliNode.RBFRadius = "20,15"
  /\ launched.cliNode.fixedFiducials = "tgt"
  /\ launched.cliNode.movingFiducials = "src"

\* this step applies a computed warp: a solver reports Completed, or a commit
\* with no points applies its identity grid
ApplyStep ==
  \/ \E k \in 1..Len(commits) : Reports(k, "Completed")
  \/ CommitStep /\ commits'[Len(commits')].status = "None"

\* C8: the transform the input node observes is reassigned only by the apply
\* step; while a commit is outstanding no operation, starting the commit and
\* changing the output selector included, changes it.
C8_SlotReassignedOnlyByApply ==
  [][((HasOutstanding \/ HasOutstanding') /\ scene' # {}) =>
       (transformNodeID' = transformNodeID \/ ApplyStep)]_vars

\* C9: a commit started with a non-empty subjectPath persists the recovery
\* snapshot before the input node is detached and before the solver is
\* launched: the snapshot holds the transform the input node observed and
\* the Running parameter as they were on entry; with an empty subjectPath
\* nothing is written.
C9_SnapshotBeforeDetach ==
  [][(CommitStep /\ HasCorrespondenceNodes) =>
       IF parameterNode.subjectPath # ""
       THEN /\ savedCount' = savedCount + 1
            /\ warpdrive'.isdir
            /\ warpdrive'.manifest =
                 [InputNode |-> parameterNode.InputNode,
                  transformNodeID |-> transformNodeID[parameterNode.InputNode],
                  Running |-> parameterNode.Running]
       ELSE /\ savedCount' = savedCount
            /\ warpdrive' = warpdrive]_vars

\* C9 witness: a commit in single-subject mode has just detached the input
\* node, and the snapshot on disk still shows the transform it observed.
C9_Witness ==
  /\ launched # NoLaunch
  /\ parameterNode.subjectPath # ""
  /\ warpdrive.isdir
  /\ warpdrive.manifest.transformNodeID # NULL
  /\ warpdrive.manifest.Running = "false"
  /\ transformNodeID[warpdrive.manifest.InputNode] = NULL

\* C10: after the scene was closed with a commit outstanding, a status
\* notification of its solver attaches nothing and ends without an error.
C10_NoApplyAfterClose ==
  [][\A k \in 1..Len(commits) : \A s \in {"Running", "Completed", "Failed", "Cancelled"} :
       (closes > 0 /\ Reports(k, s) /\ commits[k].status # s) =>
         /\ raised' = ""
         /\ transformNodeID' = transformNodeID]_vars

\* round(x / y) for x >= 0 and y > 0
RoundDiv(x, y) == (2 * x + y) \div (2 * y)

\* C11: for a spacing override s > 0 the grid of a commit has, on each axis,
\* size round(size * spacing / s) of the reference grid, the origin of the
\* reference grid, and spacing s on all three axes.
C11_OverrideKeepsFieldOfView ==
  [][(/\ CommitStep
      /\ HasCorrespondenceNodes
      /\ ~ui.spacingSameAsInputCheckBox
      /\ Float(parameterNode.Spacing) > 0) =>
       LET grid == getGridDefinition(parameterNode.InputNode)
           s == Float(parameterNode.Spacing)
           g == launched'.auxGeometry
       IN /\ g.size = [a \in 1..3 |-> RoundDiv(grid.size[a] * grid.spacing[a], s)]
          /\ g.origin = grid.origin
          /\ g.spacing = <<s, s, s>>]_vars

\* C12: a click on the calculate button with a zero or negative Spacing is
\* rejected with an exception before anything else happens: no node is added
\* to the scene, no snapshot is written, the input node stays attached, no
\* solver is launched and no commit is recorded.
C12_BadSpacingRejected ==
  [][(/\ HasCorrespondenceNodes
      /\ Float(parameterNode.Spacing) <= 0
      /\ calculateClicked) =>
       /\ raised' # ""
       /\ scene' = scene
       /\ savedCount' = savedCount
       /\ warpdrive' = warpdrive
       /\ transformNodeID' = transformNodeID
       /\ launched' = NoLaunch
       /\ commits' = commits]_vars

\* C13: with "spacing same as input" checked, the grid of a commit is the
\* grid of the input node: its size, origin and spacing on each axis.
C13_SameAsInputKeepsNativeGrid ==
  [][(CommitStep /\ HasCorrespondenceNodes /\ ui.spacingSameAsInputCheckBox) =>
       LET grid == getGridDefinition(parameterNode.InputNode)
           g == launched'.auxGeometry
       IN /\ g.size = grid.size
          /\ g.origin = grid.origin
          /\ g.spacing = grid.spacing]_vars

\* the file that holds the approval of the subject
MethodFile == getNormalizationMethod(LeadFileManager(subject, SubjectPath))

HasMethodFile == MethodFile \in DOMAIN subject.files

\* this step is saveApprovedData(subjectPath)
ApproveStep == queryUserApproveSubject("Save")

\* C14: on a BIDS subject whose normalization method file holds one JSON
\* object, saveApprovedData returns, and the file then holds one JSON object:
\* the same object with approval 1 (so a second call leaves it as it is).
C14_JSONApprovalWritten ==
  [][(/\ ApproveStep
      /\ "preprocessing" \in subject.dirs
      /\ HasMethodFile
      /\ Len(subject.files[MethodFile].docs) = 1) =>
       /\ raised' = ""
       /\ subject'.files =
            [subject.files EXCEPT
               ![MethodFile] =
                  TextFile(<<SetItem(subject.files[MethodFile].docs[1], "approval", 1)>>)]]_vars

\* the readers of .mat files the last handler tried, in order
ReadersTried(c) == SelectSeq(c, LAMBDA e : e.fn \in {"h5py.File", "io.loadmat"})

\* C15: on a legacy subject with an ea_coreg_approved.mat, saveApprovedData
\* tries the second reader exactly when the first fails; when one of the two
\* reads the file it returns, and the file then holds the variables it held,
\* with glanat the approved sentinel and every other variable as it was.
C15_LegacyKeepsOtherKeys ==
  [][(/\ ApproveStep
      /\ "preprocessing" \notin subject.dirs
      /\ HasMethodFile) =>
       LET old == subject.files[MethodFile]
           readers == ReadersTried(calls')
       IN /\ Len(readers) >= 1
          /\ readers[1].fn = "h5py.File"
          /\ (Len(readers) = 2) = (old.kind # "hdf5")
          /\ Len(readers) = 2 => readers[2].fn = "io.loadmat"
          /\ old.kind \in {"hdf5", "mat5"} =>
               /\ raised' = ""
               /\ subject'.files =
                    [subject.files EXCEPT
                       ![MethodFile] =
                          MatFile(old.kind, SetItem(old.vars, "glanat", ApprovedSentinel))]]_vars

\* C15 witness: the second reader has read a file the first could not, and
\* the file written back holds the sentinel and a coregistration flag that
\* was set.
C15_Witness ==
  /\ raised = ""
  /\ Len(ReadersTried(calls)) = 2
  /\ HasMethodFile
  /\ subject.files[MethodFile].kind = "mat5"
  /\ DOMAIN subject.files[MethodFile].vars = {"glanat", "anat_t1", "anat_t2"}
  /\ subject.files[MethodFile].vars["glanat"] = ApprovedSentinel
  /\ subject.files[MethodFile].vars["anat_t1"] = 1

\* C16: on a legacy subject without an ea_coreg_approved.mat,
\* saveApprovedData returns, the file then exists in the subject root and
\* holds the sentinel under glanat and nothing else, and the working
\* directory of the process is the one it was.
C16_LegacyCreatesFile ==
  [][(/\ ApproveStep
      /\ "preprocessing" \notin subject.dirs
      /\ ~HasMethodFile) =>
       /\ raised' = ""
       /\ MethodFile.dir = SubjectPath
       /\ subject'.files =
            [x \in DOMAIN subject.files \cup {MethodFile} |->
               IF x = MethodFile
               THEN MatFile("hdf5", [glanat |-> ApprovedSentinel])
               ELSE subject.files[x]]
       /\ cwd' = cwd]_vars

\* C16 witness: the file was written without a reader being tried, from a
\* process whose working directory is not the subject root.
C16_Witness ==
  /\ raised = ""
  /\ Len(calls) > 0
  /\ calls[1].fn = "saveApprovedDataLegacy"
  /\ Len(ReadersTried(calls)) = 0
  /\ cwd = Home
  /\ HasMethodFile
  /\ DOMAIN subject.files[MethodFile].vars = {"glanat"}

\* C20: the layout of a subject is BIDS exactly when its root has a
\* preprocessing subdirectory, and saveApprovedData uses the JSON writer on
\* the BIDS file for a BIDS subject, the legacy writer on
\* ea_coreg_approved.mat for a legacy subject.
C20_WriterAgreesWithLayout ==
  [][ApproveStep =>
       LET fm == LeadFileManager(subject, SubjectPath)
       IN /\ fm.useBIDS = ("preprocessing" \in subject.dirs)
          /\ Len(calls') > 0
          /\ IF "preprocessing" \in subject.dirs
             THEN /\ calls'[1].fn = "saveApprovedDataJSON"
                  /\ calls'[1].arg.ext = ".json"
             ELSE /\ calls'[1].fn = "saveApprovedDataLegacy"
                  /\ calls'[1].arg.base = "ea_coreg_approved"
                  /\ calls'[1].arg.ext = ".mat"]_vars

\* C20 witness: the JSON writer has been called on a subject that has both a
\* preprocessing and a normalization subdirectory.
C20_Witness ==
  /\ Len(calls) > 0
  /\ calls[1].fn = "saveApprovedDataJSON"
  /\ subject.dirs = {"preprocessing", "normalization"}

\* this step is a call of saveCurrentScene
SaveStep == savedCount' = savedCount + 1

\* the names of the files in warpdrive/Data
DataFiles(disk) == IF disk.isdir THEN {e.file : e \in disk.Data} ELSE {}

\* C17: after a call of saveCurrentScene the warpdrive directory holds what
\* that call wrote and nothing else: in Data one file per node tagged
\* correction at the call (.fcsv for a point list, .nrrd for a label map), no
\* two with the same name, none for another node and none from an earlier
\* call; the scene is written to warpdrive/WarpDriveScene.mrml.
C17_SnapshotHoldsLastCallOnly ==
  [][SaveStep =>
       /\ warpdrive'.isdir
       /\ {e.node : e \in warpdrive'.Data} = CorrectionTagged(scene)
       /\ Cardinality(warpdrive'.Data) = Cardinality(CorrectionTagged(scene))
       /\ Cardinality(DataFiles(warpdrive')) = Cardinality(warpdrive'.Data)
       /\ DataFiles(warpdrive') \cap DataFiles(warpdrive) = {}
       /\ warpdrive'.URL = "warpdrive/WarpDriveScene.mrml"]_vars

\* C17 witness: a second snapshot, taken with the label map of a stroke in
\* the scene and the glyph node of the first commit, which is not tagged,
\* still there.
C17_Witness ==
  /\ savedCount = 2
  /\ warpdrive.isdir
  /\ "glyph1" \in scene
  /\ {e.node : e \in warpdrive.Data} = {"src", "tgt", "mask"}

\* this step is loadSubjectTransform(subjectPath, antsApplyTransformsPath)
LoadStep == \E codes \in [1..2 -> ExitCodes] : loadSubjectTransform(codes)

\* the composite transform next to a warp field
Sibling(transform) == replace(transform, ".nii.gz", ".h5")

\* the invocations of the external tool the last handler made
ToolCalls(c) == SelectSeq(c, LAMBDA e : e.fn = "antsApplyTransforms")

\* the forward and the inverse warp of the subject with the reference image
\* of each
Directions ==
  LET fm == LeadFileManager(subject, SubjectPath)
  IN {[transform |-> getANTSForwardWarp(fm), reference |-> subject.images.normalized],
      [transform |-> getANTSInverseWarp(fm), reference |-> subject.images.coreg]}

\* C18: loading a subject that has its reference images: when the forward
\* warp has a composite .h5 next to it, the tool is invoked once for each
\* direction that has one, with the reference image of that direction, and
\* that .h5 is gone afterwards; when it has none, the tool is not invoked and
\* no file is deleted (so a second load after a migration changes nothing).
C18_MigratesEachDirectionOnce ==
  [][(/\ LoadStep
      /\ subject.images.normalized # <<>>
      /\ subject.images.coreg # <<>>) =>
       LET forward == getANTSForwardWarp(LeadFileManager(subject, SubjectPath))
           tools == ToolCalls(calls')
       IN IF Sibling(forward) \in DOMAIN subject.files
          THEN \A d \in Directions :
                 LET mine == SelectSeq(tools, LAMBDA e : e.arg.o = d.transform)
                 IN IF Sibling(d.transform) \in DOMAIN subject.files
                    THEN /\ Len(mine) = 1
                         /\ mine[1].arg.t = Sibling(d.transform)
                         /\ mine[1].arg.r = d.reference[1]
                         /\ Sibling(d.transform) \notin DOMAIN subject'.files
                    ELSE Len(mine) = 0
          ELSE /\ tools = <<>>
               /\ DOMAIN subject.files \subseteq DOMAIN subject'.files]_vars

\* C19: when the tool ends with a non-zero exit code in a migration, the
\* .h5 it was given is still on disk if it was and updateTranform does not
\* return True.
C19_ToolFailureKeepsH5 ==
  [][LoadStep =>
       \A i \in 1..Len(calls') :
         (calls'[i].fn = "antsApplyTransforms" /\ calls'[i].arg.exit # 0) =>
           /\ (calls'[i].arg.t \in DOMAIN subject.files =>
                 calls'[i].arg.t \in DOMAIN subject'.files)
           /\ \A j \in 1..Len(calls') : calls'[j].fn # "return"]_vars

\* C21: every path-producing operation of LeadFileManager returns for both
\* layouts: a load of a subject never ends with the search of the
\* coregistered images in an error, for a legacy subject as for a BIDS one.
C21_CoregSearchReturns ==
  [][LoadStep => raised' # "AttributeError"]_vars

\* the indices of the selected control points of the target list, and the
\* place of index i among them
SelectedIndices == {i \in 1..Len(targetFiducial) : targetFiducial[i].selected}

Rank(i) == Cardinality({j \in SelectedIndices : j <= i})

\* C22: the preview of a commit is computed from the selected correspondence
\* points only: its landmark pairs are (source[i], target[i]) for the indices
\* i of the selected points, in index order, an unselected point gives no
\* landmark; the preview creates its transform node and glyph node and no
\* command line module node.
C22_PreviewUsesSelectedPoints ==
  [][(CommitStep /\ HasCorrespondenceNodes) =>
       LET p == launched'.preview
           k == Len(commits')
       IN /\ raised' = ""
          /\ Len(p.sourceLandmarks) = Cardinality(SelectedIndices)
          /\ Len(p.targetLandmarks) = Cardinality(SelectedIndices)
          /\ \A i \in SelectedIndices :
                /\ p.sourceLandmarks[Rank(i)] = sourceFiducial[i]
                /\ p.targetLandmarks[Rank(i)] = targetFiducial[i].position
          /\ p.basis = "R"
          /\ p.inverse
          /\ commits'[k].visualizationNodes =
               {"vis" \o ToString(k), "glyph" \o ToString(k)}
          /\ (Len(sourceFiducial) = 0 => launched'.cliNode = NoCLI)]_vars

\* C22 witness: a preview has just been computed from the first and the third
\* point of a stroke whose second point is unselected.
C22_Witness ==
  /\ Len(targetFiducial) = 3
  /\ ~targetFiducial[2].selected
  /\ launched.preview.sourceLandmarks = <<11, 13>>
  /\ launched.preview.targetLandmarks = <<21, 23>>

\* a node that is neither tagged 'correction' nor under a correction folder
Uninvolved(n) ==
  /\ ~SubjectHierarchy[n].correction
  /\ \A a \in Ancestors(n) : ~SubjectHierarchy[a].correction

\* C23: discarding the session removes every correction artifact (each point
\* list and label map tagged 'correction', each correction folder) from the
\* scene, leaves every node in place that is neither tagged 'correction' nor
\* inside a correction folder, and writes nothing into the subject directory.
C23_DiscardRemovesCorrections ==
  [][DeleteCorrections =>
       /\ \A n \in scene : SubjectHierarchy[n].correction => n \notin scene'
       /\ \A n \in scene : Uninvolved(n) => n \in scene'
       /\ subject' = subject]_vars

\* what the last handler returned (NULL when it raised)
Returned(c) ==
  IF Len(c) > 0 /\ c[Len(c)].fn = "return" THEN c[Len(c)].arg ELSE NULL

\* the approval file of the subject is absent or one its layout's reader can
\* read: one JSON object, or a .mat file of either format
MethodFileReadable ==
  HasMethodFile =>
    IF "preprocessing" \in subject.dirs
    THEN /\ subject.files[MethodFile].kind = "text"
         /\ Len(subject.files[MethodFile].docs) = 1
    ELSE subject.files[MethodFile].kind \in {"hdf5", "mat5"}

\* C24: in the prompt shown when no corrections were made, Cancel writes
\* nothing and returns False, Save and Discard return True (for a subject
\* whose approval file is absent or readable), and the subject directory is
\* written only when the answer is Save.
C24_PromptAnswers ==
  [][\A ret \in Answers :
       queryUserApproveSubject(ret) =>
         /\ ret = "Cancel" => (subject' = subject /\ Returned(calls') = "False")
         /\ ret = "Discard" => (subject' = subject /\ Returned(calls') = "True")
         /\ (ret = "Save" /\ MethodFileReadable) => Returned(calls') = "True"]_vars

\* the calls of fn the last handler made, in order
CallsOf(c, fn) == SelectSeq(c, LAMBDA e : e.fn = fn)

\* the input transform with the transform it observes hardened into it
Hardened(n) ==
  IF transformNodeID[n] = NULL THEN gridTransform[n]
  ELSE [kind |-> "composite", own |-> gridTransform[n],
        parent |-> gridTransform[transformNodeID[n]]]

\* C25: every call of applyChanges writes the forward and the inverse warp
\* file of the subject's layout, forward first, both computed from the same
\* hardened input transform; when it returns the input transform is in
\* forward orientation again (inverted twice), the image node observes the
\* input transform, and no node the call created is left in the scene.
C25_ApplyWritesBothWarps ==
  [][\A n \in Inputs :
       applyChanges(n) =>
         LET fm == LeadFileManager(subject, SubjectPath)
             forward == gridTransform'[n]
         IN /\ raised' = ""
            /\ [i \in 1..Len(CallsOf(calls', "saveNode")) |->
                  CallsOf(calls', "saveNode")[i].arg]
                 = <<getANTSForwardWarp(fm), getANTSInverseWarp(fm)>>
            /\ forward.kind = "grid"
            /\ forward.of = Hardened(n)
            /\ subject'.files[getANTSForwardWarp(fm)] =
                 [kind |-> "displacement", field |-> forward]
            /\ subject'.files[getANTSInverseWarp(fm)] =
                 [kind |-> "displacement",
                  field |-> [kind |-> "grid",
                             of |-> [kind |-> "inverse", of |-> forward],
                             reference |-> "imageNode"]]
            /\ Len(CallsOf(calls', "Inverse")) = 2
            /\ transformNodeID'[n] = NULL
            /\ imageNode' = n
            /\ scene' = scene]_vars

\* C25 witness: applyChanges has just written the two warps of a legacy
\* subject whose input transform observed a computed correction.
C25_Witness ==
  /\ Len(CallsOf(calls, "saveNode")) = 2
  /\ "preprocessing" \notin subject.dirs
  /\ getANTSInverseWarp(LeadFileManager(subject, SubjectPath)) \in DOMAIN subject.files
  /\ gridTransform["n1"].kind = "grid"
  /\ gridTransform["n1"].of.kind = "composite"
  /\ gridTransform["n1"].of.parent.kind = "identity"
  /\ imageNode = "n1"
  /\ {"outNode", "referenceVolume"} \cap scene = {}

\* this step is a GUI update that found Update "true": a tool has edited the
\* points and set the parameter
UpdateRequested == addPoints \/ removePoints

\* C26: a GUI update asks for an automatic commit only when it finds Update
\* "true", Running "false" and the auto-update box checked (and then it does,
\* the button being enabled); after every handler Update is "false" again
\* and the re-entrancy flag is off, so that an update nested in an update
\* did nothing.
C26_AutomaticCommitGuard ==
  [][/\ (ui'.clickPending /\ ~ui.clickPending) =>
          /\ UpdateRequested
          /\ parameterNode.Running = "false"
          /\ ui.autoUpdateCheckBox
     /\ (/\ UpdateRequested
         /\ parameterNode.Running = "false"
         /\ ui.autoUpdateCheckBox
         /\ ui.calculateEnabled) => ui'.clickPending
     /\ parameterNode' # NoParameterNode => parameterNode'.Update = "false"
     /\ updatingGUI' = FALSE]_vars

\* C26 witness: a stroke was drawn with auto-update checked and no commit
\* running: the click of the automatic commit is pending and Update is
\* "false" again.
C26_Witness ==
  /\ ui.clickPending
  /\ ui.autoUpdateCheckBox
  /\ Len(targetFiducial) = StrokeLen
  /\ parameterNode.Running = "false"
  /\ parameterNode.Update = "false"
  /\ ~updatingGUI

\* with auto-update checked the stroke has been taken back while the first
\* commit was running (under AutoSpec the points are removed only then, and
\* the box does not change once a commit exists)
EditedDuringCommit ==
  /\ isEntered
  /\ ui.autoUpdateCheckBox
  /\ Len(commits) = 1
  /\ Outstanding(commits[1])
  /\ Len(targetFiducial) = 0

\* C27: with auto-update checked no update request is lost: when the points
\* are edited while a commit is running, a new commit is started after that
\* commit has finished.
C27_EditDuringCommitIsCommitted ==
  EditedDuringCommit ~> (Len(commits) > 1)

C30_OutputIsNotInput ==
  /\ ui.inputSelector # NULL => ui.outputSelector # ui.inputSelector
  /\ (parameterNode # NoParameterNode /\ parameterNode.InputNode # NULL) =>
       parameterNode.OutputGridTransform # parameterNode.InputNode

====
